---- MODULE Spec2Model ----
(***************************************************************************)
(* Model of include/helloworld/debug.hpp: the leveled logging macros       *)
(* info / warn / error / panic, their _if forms, check, and the d-prefixed *)
(* family that is compiled away under -DNDEBUG.                            *)
(*                                                                         *)
(* A macro is modelled as an operator that transforms a machine record     *)
(*   m = [out, terminated, condEvals, argEvals]                            *)
(* statement by statement, in the order of the macro body.  A statement    *)
(* that follows std::terminate() finds m.terminated set and does nothing.  *)
(* Each action of the state machine is one macro invocation at one call    *)
(* site of a client program.                                               *)
(***************************************************************************)
EXTENDS Integers, Sequences, FiniteSets, TLC

VARIABLES
    NDEBUG,      \* compile-time flag: TRUE when -DNDEBUG is given
    out,         \* stderr: the sequence of fprintf writes so far
    terminated,  \* TRUE once std::terminate() has been called
    last,        \* the most recent macro invocation and what it did
    ncalls       \* number of macro invocations executed so far

vars == <<NDEBUG, out, terminated, last, ncalls>>

\* Bound on the number of macro invocations of the client program.
MaxCalls == 2

(***************************************************************************)
(* Inputs: call sites and messages of the client program.                  *)
(* A format template is a C string literal, kept as its sequence of        *)
(* literal pieces and conversion specifications.                           *)
(***************************************************************************)
Sites ==
    { [file |-> "main.cpp", line |-> 7],
      [file |-> "util.cpp", line |-> 120] }

Msgs ==
    { [M |-> <<"X failed">>,           args |-> <<>>],
      [M |-> <<"n=", "%d">>,           args |-> <<42>>],
      [M |-> <<"at ", "%d", "%%">>,    args |-> <<-5>>] }

(***************************************************************************)
(* fprintf                                                                 *)
(***************************************************************************)
Digit(d) ==
    CASE d = 0 -> "0" [] d = 1 -> "1" [] d = 2 -> "2" [] d = 3 -> "3"
      [] d = 4 -> "4" [] d = 5 -> "5" [] d = 6 -> "6" [] d = 7 -> "7"
      [] d = 8 -> "8" [] d = 9 -> "9"

RECURSIVE NatToStr(_)
NatToStr(n) ==
    IF n < 10 THEN Digit(n) ELSE NatToStr(n \div 10) \o Digit(n % 10)

\* The %d conversion.
IntToStr(n) == IF n < 0 THEN "-" \o NatToStr(-n) ELSE NatToStr(n)

\* The text fprintf produces for format fmt with the variadic values vals:
\* %s and %d each consume the next value, %% prints a percent sign, any
\* other piece is copied.
RECURSIVE Format(_, _)
Format(fmt, vals) ==
    IF fmt = <<>> THEN ""
    ELSE LET t == Head(fmt) IN
         IF t = "%s" THEN Head(vals) \o Format(Tail(fmt), Tail(vals))
         ELSE IF t = "%d" THEN IntToStr(Head(vals)) \o Format(Tail(fmt), Tail(vals))
         ELSE IF t = "%%" THEN "%" \o Format(Tail(fmt), vals)
         ELSE t \o Format(Tail(fmt), vals)

\* fprintf(stderr, fmt, vals...): one write appended to the stream.
fprintf(m, fmt, vals) ==
    [m EXCEPT !.out = Append(@, Format(fmt, vals))]

\* Evaluation of the expressions of __VA_ARGS__ as function-call arguments:
\* each is evaluated once.
EvalArgs(m, args) ==
    [m EXCEPT !.argEvals =
        [i \in DOMAIN @ |-> IF i <= Len(args) THEN @[i] + 1 ELSE @[i]]]

\* Evaluation of the expression cond where it appears in a macro body.
EvalCond(m) ==
    IF m.terminated THEN m ELSE [m EXCEPT !.condEvals = @ + 1]

\* std::terminate()
terminate(m) ==
    IF m.terminated THEN m ELSE [m EXCEPT !.terminated = TRUE]

\* unlikely(x) from common.hpp: a branch-prediction hint, the value of x.
unlikely(x) == x

(***************************************************************************)
(* The macros.  site is the place of the outermost macro invocation, where *)
(* __FILE__ and __LINE__ are expanded.                                     *)
(***************************************************************************)
\* Variant of stderr_print that numbers its lines from a counter kept
\* across calls.
stderr_print_numbered(m, level, M, args, site) ==
    IF m.terminated THEN m
    ELSE fprintf(EvalArgs(m, args),
                 <<"%d", " [", "%s", "] ", "%s", ":", "%d", " - ">> \o M \o <<"\n">>,
                 <<Len(m.out), level, site.file, site.line>> \o args)

stderr_print(m, level, M, args, site) ==
    IF m.terminated THEN m
    ELSE fprintf(EvalArgs(m, args),
                 <<"[", "%s", "] ", "%s", ":", "%d", " - ">> \o M \o <<"\n">>,
                 <<level, site.file, site.line>> \o args)

info(m, M, args, site) == stderr_print(m, "Info", M, args, site)

\* Variant of warn that keeps the label of the macro it was copied from.
warn_as_info(m, M, args, site) == stderr_print(m, "Info", M, args, site)

warn(m, M, args, site) == stderr_print(m, "Warn", M, args, site)

\* Variant of error that ends the process after logging.
error_fatal(m, M, args, site) ==
    terminate(stderr_print(m, "Error", M, args, site))

error(m, M, args, site) == stderr_print(m, "Error", M, args, site)

FixedMsg == <<"Program terminated due to the error above.">>

\* Variant of panic that calls std::terminate() before the second line.
panic_early_exit(m, M, args, site) ==
    LET m1 == stderr_print(m, "Panic", M, args, site)
        m2 == terminate(m1)
    IN  stderr_print(m2, "Panic", FixedMsg, <<>>, site)

panic(m, M, args, site) ==
    LET m1 == stderr_print(m, "Panic", M, args, site)
        m2 == stderr_print(m1, "Panic", FixedMsg, <<>>, site)
    IN  terminate(m2)

\* Variant of info_if whose body names cond twice.
info_if_twice(m, cond, M, args, site) ==
    LET m1 == EvalCond(EvalCond(m)) IN
    IF cond THEN info(m1, M, args, site) ELSE m1

info_if(m, cond, M, args, site) ==
    LET m1 == EvalCond(m) IN
    IF cond THEN info(m1, M, args, site) ELSE m1

warn_if(m, cond, M, args, site) ==
    LET m1 == EvalCond(m) IN
    IF cond THEN warn(m1, M, args, site) ELSE m1

\* Variant of error_if that evaluates its arguments before the test, as a
\* function call would.
error_if_eager(m, cond, M, args, site) ==
    LET m1 == EvalArgs(EvalCond(m), args) IN
    IF unlikely(cond)
    THEN fprintf(m1,
                 <<"[", "%s", "] ", "%s", ":", "%d", " - ">> \o M \o <<"\n">>,
                 <<"Error", site.file, site.line>> \o args)
    ELSE m1

error_if(m, cond, M, args, site) ==
    LET m1 == EvalCond(m) IN
    IF unlikely(cond) THEN error(m1, M, args, site) ELSE m1

panic_if(m, cond, M, args, site) ==
    LET m1 == EvalCond(m) IN
    IF unlikely(cond) THEN panic(m1, M, args, site) ELSE m1

\* Variant of check that reports with error instead of panic.
check_as_error(m, cond, M, args, site) ==
    LET m1 == EvalCond(m)
        __cond == cond
    IN  IF unlikely(~__cond) THEN error(m1, M, args, site) ELSE m1

\* Variant of check that tests __cond instead of !__cond.
check_not_negated(m, cond, M, args, site) ==
    LET m1 == EvalCond(m)
        __cond == cond
    IN  IF unlikely(__cond) THEN panic(m1, M, args, site) ELSE m1

\* const bool __cond = cond; if (unlikely(!__cond)) { panic(...); }
check(m, cond, M, args, site) ==
    LET m1 == EvalCond(m)
        __cond == cond
    IN  IF unlikely(~__cond) THEN panic(m1, M, args, site) ELSE m1

\* The d-prefixed family: #ifndef NDEBUG the base macro, #else nothing.
dcheck(m, cond, M, args, site) ==
    IF ~NDEBUG THEN check(m, cond, M, args, site) ELSE m

dinfo(m, M, args, site) == IF ~NDEBUG THEN info(m, M, args, site) ELSE m

\* Variant of dwarn that forwards to info.
dwarn_as_info(m, M, args, site) ==
    IF ~NDEBUG THEN info(m, M, args, site) ELSE m

dwarn(m, M, args, site) == IF ~NDEBUG THEN warn(m, M, args, site) ELSE m

derror(m, M, args, site) == IF ~NDEBUG THEN error(m, M, args, site) ELSE m

\* Variant of dpanic that is missing from the release branch.
dpanic_always(m, M, args, site) == panic(m, M, args, site)

dpanic(m, M, args, site) == IF ~NDEBUG THEN panic(m, M, args, site) ELSE m

dinfo_if(m, cond, M, args, site) ==
    IF ~NDEBUG THEN info_if(m, cond, M, args, site) ELSE m

dwarn_if(m, cond, M, args, site) ==
    IF ~NDEBUG THEN warn_if(m, cond, M, args, site) ELSE m

derror_if(m, cond, M, args, site) ==
    IF ~NDEBUG THEN error_if(m, cond, M, args, site) ELSE m

dpanic_if(m, cond, M, args, site) ==
    IF ~NDEBUG THEN panic_if(m, cond, M, args, site) ELSE m

(***************************************************************************)
(* The state machine: a client program that invokes the macros.            *)
(***************************************************************************)
\* The machine at the start of an invocation with arguments args.
Enter(args) ==
    [out |-> out, terminated |-> terminated,
     condEvals |-> 0, argEvals |-> [i \in 1..Len(args) |-> 0]]

NoCall ==
    [op |-> "none", hasCond |-> FALSE, cond |-> FALSE,
     site |-> [file |-> "", line |-> 0], M |-> <<>>, args |-> <<>>,
     wrote |-> <<>>, condEvals |-> 0, argEvals |-> <<>>, term |-> FALSE]

Init ==
    /\ NDEBUG \in BOOLEAN
    /\ out = <<>>
    /\ terminated = FALSE
    /\ last = NoCall
    /\ ncalls = 0

\* One invocation of macro op that takes the machine to m1.  A terminated
\* process executes nothing.
Invoke(op, hasCond, cond, site, msg, m1) ==
    /\ ~terminated
    /\ ncalls < MaxCalls
    /\ out' = m1.out
    /\ terminated' = m1.terminated
    /\ last' = [op |-> op, hasCond |-> hasCond, cond |-> cond, site |-> site,
                M |-> msg.M, args |-> msg.args,
                wrote |-> SubSeq(m1.out, Len(out) + 1, Len(m1.out)),
                condEvals |-> m1.condEvals, argEvals |-> m1.argEvals,
                term |-> m1.terminated]
    /\ ncalls' = ncalls + 1
    /\ UNCHANGED NDEBUG

CallInfo ==
    \E s \in Sites, msg \in Msgs :
        Invoke("info", FALSE, FALSE, s, msg,
               info(Enter(msg.args), msg.M, msg.args, s))

CallWarn ==
    \E s \in Sites, msg \in Msgs :
        Invoke("warn", FALSE, FALSE, s, msg,
               warn(Enter(msg.args), msg.M, msg.args, s))

CallError ==
    \E s \in Sites, msg \in Msgs :
        Invoke("error", FALSE, FALSE, s, msg,
               error(Enter(msg.args), msg.M, msg.args, s))

CallPanic ==
    \E s \in Sites, msg \in Msgs :
        Invoke("panic", FALSE, FALSE, s, msg,
               panic(Enter(msg.args), msg.M, msg.args, s))

CallInfoIf ==
    \E c \in BOOLEAN, s \in Sites, msg \in Msgs :
        Invoke("info_if", TRUE, c, s, msg,
               info_if(Enter(msg.args), c, msg.M, msg.args, s))

CallWarnIf ==
    \E c \in BOOLEAN, s \in Sites, msg \in Msgs :
        Invoke("warn_if", TRUE, c, s, msg,
               warn_if(Enter(msg.args), c, msg.M, msg.args, s))

CallErrorIf ==
    \E c \in BOOLEAN, s \in Sites, msg \in Msgs :
        Invoke("error_if", TRUE, c, s, msg,
               error_if(Enter(msg.args), c, msg.M, msg.args, s))

CallPanicIf ==
    \E c \in BOOLEAN, s \in Sites, msg \in Msgs :
        Invoke("panic_if", TRUE, c, s, msg,
               panic_if(Enter(msg.args), c, msg.M, msg.args, s))

CallCheck ==
    \E c \in BOOLEAN, s \in Sites, msg \in Msgs :
        Invoke("check", TRUE, c, s, msg,
               check(Enter(msg.args), c, msg.M, msg.args, s))

CallDcheck ==
    \E c \in BOOLEAN, s \in Sites, msg \in Msgs :
        Invoke("dcheck", TRUE, c, s, msg,
               dcheck(Enter(msg.args), c, msg.M, msg.args, s))

CallDinfo ==
    \E s \in Sites, msg \in Msgs :
        Invoke("dinfo", FALSE, FALSE, s, msg,
               dinfo(Enter(msg.args), msg.M, msg.args, s))

CallDwarn ==
    \E s \in Sites, msg \in Msgs :
        Invoke("dwarn", FALSE, FALSE, s, msg,
               dwarn(Enter(msg.args), msg.M, msg.args, s))

CallDerror ==
    \E s \in Sites, msg \in Msgs :
        Invoke("derror", FALSE, FALSE, s, msg,
               derror(Enter(msg.args), msg.M, msg.args, s))

CallDpanic ==
    \E s \in Sites, msg \in Msgs :
        Invoke("dpanic", FALSE, FALSE, s, msg,
               dpanic(Enter(msg.args), msg.M, msg.args, s))

CallDinfoIf ==
    \E c \in BOOLEAN, s \in Sites, msg \in Msgs :
        Invoke("dinfo_if", TRUE, c, s, msg,
               dinfo_if(Enter(msg.args), c, msg.M, msg.args, s))

CallDwarnIf ==
    \E c \in BOOLEAN, s \in Sites, msg \in Msgs :
        Invoke("dwarn_if", TRUE, c, s, msg,
               dwarn_if(Enter(msg.args), c, msg.M, msg.args, s))

CallDerrorIf ==
    \E c \in BOOLEAN, s \in Sites, msg \in Msgs :
        Invoke("derror_if", TRUE, c, s, msg,
               derror_if(Enter(msg.args), c, msg.M, msg.args, s))

CallDpanicIf ==
    \E c \in BOOLEAN, s \in Sites, msg \in Msgs :
        Invoke("dpanic_if", TRUE, c, s, msg,
               dpanic_if(Enter(msg.args), c, msg.M, msg.args, s))

Next ==
    \/ CallInfo \/ CallWarn \/ CallError \/ CallPanic
    \/ CallInfoIf \/ CallWarnIf \/ CallErrorIf \/ CallPanicIf
    \/ CallCheck
    \/ CallDcheck \/ CallDinfo \/ CallDwarn \/ CallDerror \/ CallDpanic
    \/ CallDinfoIf \/ CallDwarnIf \/ CallDerrorIf \/ CallDpanicIf

Spec == Init /\ [][Next]_vars

(***************************************************************************)
(* Vocabulary of the properties.                                           *)
(***************************************************************************)
BaseOps == {"info", "warn", "error", "panic"}

IfOps == {"info_if", "warn_if", "error_if", "panic_if"}

DOps ==
    {"dinfo", "dwarn", "derror", "dpanic", "dcheck",
     "dinfo_if", "dwarn_if", "derror_if", "dpanic_if"}

\* The stream as it was when the last invocation began.
Pre == SubSeq(out, 1, Len(out) - Len(last.wrote))

\* The machine in which the last invocation began.
M0 ==
    [out |-> Pre, terminated |-> FALSE,
     condEvals |-> 0, argEvals |-> [i \in 1..Len(last.args) |-> 0]]

\* What an invocation that takes M0 to m is observed to do.
Effect(m) ==
    [wrote |-> SubSeq(m.out, Len(Pre) + 1, Len(m.out)),
     term |-> m.terminated,
     condEvals |-> m.condEvals,
     argEvals |-> m.argEvals]

LastEffect ==
    [wrote |-> last.wrote, term |-> last.term,
     condEvals |-> last.condEvals, argEvals |-> last.argEvals]

\* The same, leaving out the evaluations of the condition.
Unconditional(e) == [wrote |-> e.wrote, term |-> e.term, argEvals |-> e.argEvals]

\* The non-d macro named op, applied to the arguments of the last invocation.
RunLast(op) ==
    CASE op = "info"     -> info(M0, last.M, last.args, last.site)
      [] op = "warn"     -> warn(M0, last.M, last.args, last.site)
      [] op = "error"    -> error(M0, last.M, last.args, last.site)
      [] op = "panic"    -> panic(M0, last.M, last.args, last.site)
      [] op = "check"    -> check(M0, last.cond, last.M, last.args, last.site)
      [] op = "info_if"  -> info_if(M0, last.cond, last.M, last.args, last.site)
      [] op = "warn_if"  -> warn_if(M0, last.cond, last.M, last.args, last.site)
      [] op = "error_if" -> error_if(M0, last.cond, last.M, last.args, last.site)
      [] op = "panic_if" -> panic_if(M0, last.cond, last.M, last.args, last.site)

\* The non-d counterpart of a d-prefixed macro.
Counterpart(op) ==
    CASE op = "dinfo"     -> "info"
      [] op = "dwarn"     -> "warn"
      [] op = "derror"    -> "error"
      [] op = "dpanic"    -> "panic"
      [] op = "dcheck"    -> "check"
      [] op = "dinfo_if"  -> "info_if"
      [] op = "dwarn_if"  -> "warn_if"
      [] op = "derror_if" -> "error_if"
      [] op = "dpanic_if" -> "panic_if"

\* The base operation of an _if form.
BaseOfIf(op) ==
    CASE op = "info_if"  -> "info"
      [] op = "warn_if"  -> "warn"
      [] op = "error_if" -> "error"
      [] op = "panic_if" -> "panic"

\* The severity label of a non-fatal operation.
LevelOf(op) ==
    CASE op \in {"info", "info_if"}   -> "Info"
      [] op \in {"warn", "warn_if"}   -> "Warn"
      [] op \in {"error", "error_if"} -> "Error"

\* The line '[<Level>] <file>:<line> - <message>'.
ShapeLine(level, site, message) ==
    "[" \o level \o "] " \o site.file \o ":" \o IntToStr(site.line)
        \o " - " \o message \o "\n"

\* The caller's message with its arguments substituted.
LastMessage == Format(last.M, last.args)

FixedText == "Program terminated due to the error above."

NoArgEvaluated == \A i \in DOMAIN last.argEvals : last.argEvals[i] = 0

EachArgEvaluatedOnce == \A i \in DOMAIN last.argEvals : last.argEvals[i] = 1

\* The two lines of a panic at the call site of the last invocation.
PanicLines ==
    << ShapeLine("Panic", last.site, LastMessage),
       ShapeLine("Panic", last.site, FixedText) >>

(***************************************************************************)
(* C1: panic writes exactly two [Panic] lines carrying the call site, the  *)
(* caller's formatted message first and the fixed message second, then     *)
(* terminates the process; a terminated process executes nothing more.     *)
(***************************************************************************)
C1_PanicState ==
    last.op = "panic" =>
        /\ last.wrote = PanicLines
        /\ out = Pre \o PanicLines
        /\ last.term
        /\ terminated

C1_PanicTwoLinesThenTerminate ==
    /\ [] C1_PanicState
    /\ [][~terminated]_vars

C1_Witness ==
    /\ last.op = "panic"
    /\ terminated
    /\ out = << "[Panic] main.cpp:7 - X failed\n",
                "[Panic] main.cpp:7 - Program terminated due to the error above.\n" >>

(***************************************************************************)
(* C2: info, warn and error each write exactly one line                    *)
(* '[<Level>] <file>:<line> - <message>' with their own level and the call *)
(* site, and do not terminate the process.                                 *)
(***************************************************************************)
C2_OneLineNoTermination ==
    last.op \in {"info", "warn", "error"} =>
        /\ last.wrote = << ShapeLine(LevelOf(last.op), last.site, LastMessage) >>
        /\ out = Append(Pre, ShapeLine(LevelOf(last.op), last.site, LastMessage))
        /\ ~last.term
        /\ ~terminated

C2_Witness ==
    /\ last.op = "error"
    /\ ~terminated
    /\ out = << "[Info] util.cpp:120 - n=42\n",
                "[Error] main.cpp:7 - at -5%\n" >>

(***************************************************************************)
(* C3: check with a false condition does what panic does with the same     *)
(* message and arguments: the same two [Panic] lines in the same order,    *)
(* nothing else written, then termination.                                 *)
(***************************************************************************)
C3_CheckFalseIsPanic ==
    (last.op = "check" /\ ~last.cond) =>
        /\ Unconditional(LastEffect) = Unconditional(Effect(RunLast("panic")))
        /\ last.wrote = PanicLines
        /\ terminated

C3_Witness ==
    /\ last.op = "check"
    /\ ~last.cond
    /\ terminated
    /\ out = << "[Panic] util.cpp:120 - n=42\n",
                "[Panic] util.cpp:120 - Program terminated due to the error above.\n" >>

(***************************************************************************)
(* C4: check with a true condition writes nothing, does not terminate,     *)
(* does not evaluate the message arguments, and evaluates the condition    *)
(* exactly once.                                                           *)
(***************************************************************************)
C4_CheckTrueNoEffect ==
    (last.op = "check" /\ last.cond) =>
        /\ last.wrote = <<>>
        /\ out = Pre
        /\ ~last.term
        /\ ~terminated
        /\ NoArgEvaluated
        /\ last.condEvals = 1

C4_Witness ==
    /\ last.op = "check"
    /\ last.cond
    /\ last.args = <<42>>
    /\ last.argEvals = <<0>>
    /\ last.condEvals = 1
    /\ out = << "[Warn] main.cpp:7 - X failed\n" >>

(***************************************************************************)
(* C5: an _if form whose condition is false writes nothing, does not       *)
(* terminate, and evaluates none of the arguments after the condition.     *)
(***************************************************************************)
C5_IfFalseNoEffect ==
    (last.op \in IfOps /\ ~last.cond) =>
        /\ last.wrote = <<>>
        /\ out = Pre
        /\ ~last.term
        /\ ~terminated
        /\ NoArgEvaluated

C5_Witness ==
    /\ last.op = "panic_if"
    /\ ~last.cond
    /\ last.args = <<42>>
    /\ last.argEvals = <<0>>
    /\ ~terminated
    /\ out = << "[Info] main.cpp:7 - X failed\n" >>

(***************************************************************************)
(* C6: under NDEBUG every d-prefixed operation is a no-op: it writes       *)
(* nothing, never terminates, and evaluates neither its condition nor any  *)
(* other argument.                                                         *)
(***************************************************************************)
C6_ReleaseNoOp ==
    (NDEBUG /\ last.op \in DOps) =>
        /\ last.wrote = <<>>
        /\ out = Pre
        /\ ~last.term
        /\ ~terminated
        /\ last.condEvals = 0
        /\ NoArgEvaluated

C6_Witness ==
    /\ NDEBUG
    /\ last.op = "dcheck"
    /\ ~last.cond
    /\ last.args = <<42>>
    /\ last.argEvals = <<0>>
    /\ ~terminated
    /\ ncalls = 2
    /\ out = <<>>

(***************************************************************************)
(* C7: without NDEBUG every d-prefixed operation does what its non-d       *)
(* counterpart does on the same input: the same lines in the same order,   *)
(* the same numbers of evaluations, the same termination outcome.          *)
(***************************************************************************)
C7_DebugSameAsBase ==
    (~NDEBUG /\ last.op \in DOps) =>
        LastEffect = Effect(RunLast(Counterpart(last.op)))

C7_Witness ==
    /\ ~NDEBUG
    /\ last.op = "dpanic_if"
    /\ last.cond
    /\ terminated
    /\ last.condEvals = 1
    /\ last.argEvals = <<1>>
    /\ out = << "[Warn] main.cpp:7 - X failed\n",
                "[Panic] util.cpp:120 - at -5%\n",
                "[Panic] util.cpp:120 - Program terminated due to the error above.\n" >>

(***************************************************************************)
(* C8: the process terminates only through panic, panic_if with a true     *)
(* condition, check with a false condition, or their d-forms when NDEBUG   *)
(* is not defined; once terminated, the last two lines written are [Panic] *)
(* lines, the final one the fixed message; info, warn, error and their _if *)
(* forms never terminate the process.                                      *)
(***************************************************************************)
FatalPath ==
    \/ last.op = "panic"
    \/ last.op = "panic_if" /\ last.cond
    \/ last.op = "check" /\ ~last.cond
    \/ ~NDEBUG /\ last.op = "dpanic"
    \/ ~NDEBUG /\ last.op = "dpanic_if" /\ last.cond
    \/ ~NDEBUG /\ last.op = "dcheck" /\ ~last.cond

C8_OnlyFatalPathsTerminate ==
    /\ terminated =>
        /\ FatalPath
        /\ Len(out) >= 2
        /\ out[Len(out) - 1] = ShapeLine("Panic", last.site, LastMessage)
        /\ out[Len(out)] = ShapeLine("Panic", last.site, FixedText)
    /\ last.op \in {"info", "warn", "error", "info_if", "warn_if", "error_if"}
        => ~terminated

C8_Witness ==
    /\ terminated
    /\ last.op = "dcheck"
    /\ ncalls = 2
    /\ out = << "[Error] util.cpp:120 - X failed\n",
                "[Panic] main.cpp:7 - n=42\n",
                "[Panic] main.cpp:7 - Program terminated due to the error above.\n" >>

(***************************************************************************)
(* C9: an _if form evaluates its condition exactly once; when the          *)
(* condition is true it does exactly what its base operation does with the *)
(* remaining arguments, each of which is evaluated exactly once.           *)
(***************************************************************************)
C9_IfFormIsGuardedBase ==
    last.op \in IfOps =>
        /\ last.condEvals = 1
        /\ last.cond =>
            /\ Unconditional(LastEffect)
                 = Unconditional(Effect(RunLast(BaseOfIf(last.op))))
            /\ EachArgEvaluatedOnce

C9_Witness ==
    /\ last.op = "warn_if"
    /\ last.cond
    /\ last.condEvals = 1
    /\ last.argEvals = <<1>>
    /\ ~terminated
    /\ out = << "[Warn] util.cpp:120 - n=42\n" >>

(***************************************************************************)
(* C10: the line a non-fatal operation writes is determined by its         *)
(* severity, call site and arguments alone, whatever ran before it; an     *)
(* invocation that repeats the previous one appends the same line again.   *)
(***************************************************************************)
NonFatal(c) ==
    c.op \in {"info", "warn", "error", "info_if", "warn_if", "error_if"}

SameCall(c, d) ==
    /\ c.op = d.op
    /\ c.hasCond = d.hasCond
    /\ c.cond = d.cond
    /\ c.site = d.site
    /\ c.M = d.M
    /\ c.args = d.args

C10_LineOfCallAlone ==
    NonFatal(last) =>
        last.wrote = IF last.hasCond /\ ~last.cond
                     THEN <<>>
                     ELSE << ShapeLine(LevelOf(last.op), last.site, LastMessage) >>

C10_NoHiddenState ==
    /\ [] C10_LineOfCallAlone
    /\ [][ (ncalls' = ncalls + 1 /\ NonFatal(last') /\ SameCall(last', last))
             => (last'.wrote = last.wrote /\ out' = out \o last.wrote) ]_vars

C10_Witness ==
    /\ last.op = "info"
    /\ ncalls = 2
    /\ out = << "[Info] util.cpp:120 - at -5%\n",
                "[Info] util.cpp:120 - at -5%\n" >>

====
